---- MODULE Spec2Model ----
(***************************************************************************)
(* A model of the slang interpreter: the delimiter reducer, the statement  *)
(* splitter, the statement and expression parser (src/src/parser.rs), the  *)
(* flat executor (src/src/executor.rs) and the layered evaluator           *)
(* (src/src/main.rs).                                                      *)
(*                                                                         *)
(* Indices are 0-based as in the source; Slice(t, a, b) is t[a..b].        *)
(* A Result is [ok |-> TRUE, val |-> v] or [ok |-> FALSE, err |-> msg];    *)
(* a Rust panic (slice or index out of range) is the value Panic.          *)
(***************************************************************************)
EXTENDS Integers, Sequences, FiniteSets, TLC

VARIABLES
    t,          \* reducer: the token sequence being reduced
    i,          \* reducer: the scan index of the while loop
    reduced_t,  \* reducer: the nodes pushed so far
    rstatus,    \* reducer: "run", "ok" or the error message
    precedence, \* parser: the table of Operator::precedence()
    nodes,      \* parser: the PartialParsed slice handed to the parser
    pstage,     \* parser: "input", "expr", "stmts", "evaluated", "executed" or "idle"
    parsed,     \* parser: the Result of get_expr or get_statements
    evaluated,  \* parser: the outcome of evaluating what was parsed
    context,    \* evaluator: the Context of main
    executed,   \* evaluator: the statement executed last
    entry,      \* evaluator: the Context before that statement
    outcome,    \* evaluator: the outcome of that statement
    globals,    \* executor: the HashMap of variables
    issued,     \* executor: the statement executed last
    held,       \* executor: the HashMap before that statement
    answer,     \* executor: the result of that statement
    loop,       \* while loop: the WhileLoop statement being executed
    ambient,    \* while loop: the Context the loop runs in
    position,   \* while loop: "condition", "body", "done", "failed" or "idle"
    iterations, \* while loop: the evaluations of the body so far
    passed      \* while loop: the outcome of the body evaluated last

rvars == <<t, i, reduced_t, rstatus>>

pvars == <<precedence, nodes, pstage, parsed, evaluated>>

evars == <<context, executed, entry, outcome>>

xvars == <<globals, issued, held, answer>>

wvars == <<loop, ambient, position, iterations, passed>>

vars == <<t, i, reduced_t, rstatus, precedence, nodes, pstage, parsed, evaluated,
          context, executed, entry, outcome, globals, issued, held, answer,
          loop, ambient, position, iterations, passed>>

(***************************************************************************)
(* Bounds of the model.                                                    *)
(***************************************************************************)
MaxDelims == 6   \* longest sequence made of the six delimiter tokens only
MaxTokens == 3   \* longest sequence over the whole reducer alphabet
MaxChain == 5    \* longest slice of operands and operators
MaxPrecedence == 2  \* precedence values are 1..MaxPrecedence
MaxShape == 5    \* longest slice of keywords, punctuation and blocks
MaxStmtNodes == 4   \* longest slice handed to get_statements
MaxBlockLen == 2    \* most statements in a block the evaluator is given
MaxIndex == 5       \* list indices are -MaxIndex..MaxIndex
MaxIterations == 3  \* most evaluations of a loop body

\* The modulus of `as usize`.  It stands for 2^64: TLC's integers are 32 bits
\* wide, and any modulus above every list length gives the same outcomes.
UsizeModulus == 1073741824

(***************************************************************************)
(* Results.                                                                *)
(***************************************************************************)
Ok(v) == [ok |-> TRUE, val |-> v]

Err(msg) == [ok |-> FALSE, err |-> msg]

Panic == [ok |-> FALSE, err |-> "panic"]

IsPanic(r) == (~r.ok) /\ r.err = "panic"

\* the ? operator: the rest runs on the value of an Ok result
Then(r, F(_)) == IF r.ok THEN F(r.val) ELSE r

Slice(s, a, b) == SubSeq(s, a + 1, b)

At(s, j) == s[j + 1]

\* 0-based positions of the elements of s that satisfy P, ascending
Positions(s, P(_)) ==
    SelectSeq([j \in 1..Len(s) |-> j - 1], LAMBDA j : P(s[j + 1]))

(***************************************************************************)
(* Tokens (crate::tokenizer::Token, as used by parser.rs).                 *)
(***************************************************************************)
OpeningParethesis == [t |-> "OpeningParethesis"]
ClosingParethesis == [t |-> "ClosingParethesis"]
OpeningBrace == [t |-> "OpeningBrace"]
ClosingBrace == [t |-> "ClosingBrace"]
OpeningBracket == [t |-> "OpeningBracket"]
ClosingBracket == [t |-> "ClosingBracket"]
VerticalBar == [t |-> "VerticalBar"]
Comma == [t |-> "Comma"]
Colon == [t |-> "Colon"]
Semicolon == [t |-> "Semicolon"]
Assign == [t |-> "Assign"]
Dot == [t |-> "Dot"]
Identifier(n) == [t |-> "Identifier", name |-> n]
Keyword(k) == [t |-> "Keyword", kw |-> k]
OperatorTok(o) == [t |-> "Operator", op |-> o]
OperatorAssign(o) == [t |-> "OperatorAssign", op |-> o]
ValueTok(v) == [t |-> "Value", value |-> v]

(***************************************************************************)
(* PartialParsed.                                                          *)
(***************************************************************************)
PToken(tkn) == [k |-> "Token", tok |-> tkn]
Braces(b) == [k |-> "Braces", body |-> b]
Parentheses(b) == [k |-> "Parentheses", body |-> b]
Brackets(b) == [k |-> "Brackets", body |-> b]
Closure(a) == [k |-> "Closure", args |-> a]

(***************************************************************************)
(* find_matching: the first index at nesting level 0 whose token is the    *)
(* wanted closing token; every opening delimiter of any kind raises the    *)
(* level and every closing delimiter lowers it.  None is -1.               *)
(***************************************************************************)
\* mutant: only parentheses move the nesting level
LevelDeltaParenthesesOnly(tkn) ==
    IF tkn.t = "OpeningParethesis" THEN 1
    ELSE IF tkn.t = "ClosingParethesis" THEN -1
    ELSE 0

LevelDelta(tkn) ==
    IF tkn.t \in {"OpeningParethesis", "OpeningBrace", "OpeningBracket"} THEN 1
    ELSE IF tkn.t \in {"ClosingParethesis", "ClosingBrace", "ClosingBracket"} THEN -1
    ELSE 0

RECURSIVE FindFrom(_, _, _, _)
FindFrom(s, want, j, indent_level) ==
    IF j >= Len(s) THEN -1
    ELSE IF indent_level = 0 /\ At(s, j).t = want THEN j
    ELSE FindFrom(s, want, j + 1, indent_level + LevelDelta(At(s, j)))

find_matching(s, want) == FindFrom(s, want, 0, 0)

(***************************************************************************)
(* get_comma_separated_identifiers                                         *)
(***************************************************************************)
IsCommaTok(tkn) == tkn.t = "Comma"

SegStart(commas, n) == IF n = 0 THEN 0 ELSE commas[n] + 1

SegEnd(commas, n, len) == IF n = Len(commas) THEN len ELSE commas[n + 1]

RECURSIVE IdentsFrom(_, _, _, _)
IdentsFrom(s, commas, n, idents) ==
    IF n > Len(commas) THEN Ok(idents)
    ELSE LET start == SegStart(commas, n)
             end == SegEnd(commas, n, Len(s))
         IN IF start + 1 = end
            THEN IF At(s, start).t = "Identifier"
                 THEN IdentsFrom(s, commas, n + 1, Append(idents, At(s, start).name))
                 ELSE Err("invalid identifier in list")
            ELSE Err("invalid identifier list")

get_comma_separated_identifiers(s) ==
    IdentsFrom(s, Positions(s, IsCommaTok), 0, <<>>)

(***************************************************************************)
(* reduce_brackets_and_parenths: one iteration of the while loop at index  *)
(* j, as [ok, node, next] or an error; then the loop.                      *)
(***************************************************************************)
RECURSIVE reduce_brackets_and_parenths(_)

\* the three group arms: open token at j, closing token `want`
GroupOf(s, j, closing, kind) ==
    Then(reduce_brackets_and_parenths(Slice(s, j + 1, j + 1 + closing)),
         LAMBDA reduced : [ok |-> TRUE,
                           node |-> [k |-> kind, body |-> reduced],
                           next |-> j + closing + 1 + 1])

ReduceGroup(s, j, want, kind, msg) ==
    IF find_matching(Slice(s, j + 1, Len(s)), want) = -1 THEN Err(msg)
    ELSE GroupOf(s, j, find_matching(Slice(s, j + 1, Len(s)), want), kind)

ClosureOf(s, j, closing) ==
    Then(get_comma_separated_identifiers(Slice(s, j + 1, j + 1 + closing)),
         LAMBDA reduced : [ok |-> TRUE, node |-> Closure(reduced),
                           next |-> j + closing + 1 + 1])

ReduceBar(s, j) ==
    IF find_matching(Slice(s, j + 1, Len(s)), "VerticalBar") = -1
    THEN Err("No matching closing bracket!")
    ELSE ClosureOf(s, j, find_matching(Slice(s, j + 1, Len(s)), "VerticalBar"))

ReduceStep(s, j) ==
    LET tkn == At(s, j)
    IN CASE tkn.t = "OpeningParethesis" ->
              ReduceGroup(s, j, "ClosingParethesis", "Parentheses",
                          "No matching closing parenthesis!")
         [] tkn.t = "OpeningBrace" ->
              ReduceGroup(s, j, "ClosingBrace", "Braces", "No matching closing brace!")
         [] tkn.t = "OpeningBracket" ->
              ReduceGroup(s, j, "ClosingBracket", "Brackets", "No matching closing bracket!")
         [] tkn.t = "VerticalBar" -> ReduceBar(s, j)
         [] OTHER -> [ok |-> TRUE, node |-> PToken(tkn), next |-> j + 1]

RECURSIVE ReduceLoop(_, _, _), ReduceNext(_, _, _)
ReduceLoop(s, j, acc) ==
    IF j >= Len(s) THEN Ok(acc)
    ELSE ReduceNext(s, ReduceStep(s, j), acc)

ReduceNext(s, r, acc) ==
    IF ~r.ok THEN r ELSE ReduceLoop(s, r.next, Append(acc, r.node))

reduce_brackets_and_parenths(s) == ReduceLoop(s, 0, <<>>)

(***************************************************************************)
(* VariableValue, Expression, ReferenceExpr and Statement.                 *)
(***************************************************************************)
Unit == [v |-> "Unit"]
Number(n) == [v |-> "Number", num |-> n]
Boolean(b) == [v |-> "Boolean", bool |-> b]
ListValue(es) == [v |-> "List", elems |-> es]
ObjectValue(fs) == [v |-> "Object", fieldvals |-> fs]
Function(params, body) == [v |-> "Function", params |-> params, fbody |-> body]

EmptyMap == [n \in {} |-> Unit]

\* HashMap::insert
Bind(scope, name, val) ==
    [n \in DOMAIN scope \cup {name} |-> IF n = name THEN val ELSE scope[n]]

Value(v) == [e |-> "Value", value |-> v]
List(es) == [e |-> "List", items |-> es]
Object(fs) == [e |-> "Object", fields |-> fs]
Reference(r) == [e |-> "Reference", ref |-> r]
BinaryOperator(l, r, o) == [e |-> "BinaryOperator", left |-> l, right |-> r, op |-> o]
UnaryOperator(x, o) == [e |-> "UnaryOperator", operand |-> x, op |-> o]
Block(stmts) == [e |-> "Block", stmts |-> stmts]
FunctionCall(f, args) == [e |-> "FunctionCall", callee |-> f, callargs |-> args]
IfElse(c, a, b) == [e |-> "IfElse", cond |-> c, then |-> a, else |-> b]
ForLoop(n, it, b) == [e |-> "ForLoop", name |-> n, iter |-> it, loopbody |-> b]
WhileLoop(c, b) == [e |-> "WhileLoop", cond |-> c, loopbody |-> b]

Variable(n) == [r |-> "Variable", name |-> n]
Index(base, ix) == [r |-> "Index", base |-> base, index |-> ix]
ObjectRef(base, f) == [r |-> "Object", base |-> base, field |-> f]

VariableDefinition(n, x) == [s |-> "VariableDefinition", name |-> n, expr |-> x]
VariableAssignment(r, x) == [s |-> "VariableAssignment", ref |-> r, expr |-> x]
ExprStmt(x) == [s |-> "Expr", expr |-> x]
Return(x) == [s |-> "Return", expr |-> x]
Break(x) == [s |-> "Break", expr |-> x]
Continue == [s |-> "Continue"]
ImplicitReturn(x) == [s |-> "ImplicitReturn", expr |-> x]

(***************************************************************************)
(* Tests on PartialParsed nodes (the matches! patterns of parser.rs).      *)
(***************************************************************************)
IsTok(n, kind) == n.k = "Token" /\ n.tok.t = kind

IsKw(n, kw) == IsTok(n, "Keyword") /\ n.tok.kw = kw

IsSemicolon(n) == IsTok(n, "Semicolon")

IsComma(n) == IsTok(n, "Comma")

\* t.iter().position(..): the first index that satisfies P, or -1
Position(s, P(_)) ==
    LET ps == Positions(s, P) IN IF ps = <<>> THEN -1 ELSE ps[1]

\* &t[a..b]: in range when a <= b <= len
InRange(s, a, b) == 0 <= a /\ a <= b /\ b <= Len(s)

(***************************************************************************)
(* The operator scan of get_expr: the index of the operator to split at,   *)
(* or -1.  An operator replaces the current choice unless the current      *)
(* choice has a strictly lower precedence.                                 *)
(***************************************************************************)
\* mutant: the comparison is the wrong way round, the highest value is kept
ReplacesHighest(lowest_precedence, p) == ~(p < lowest_precedence)

\* mutant: an operator replaces the current choice only if strictly lower
ReplacesLowestStrict(lowest_precedence, p) == p < lowest_precedence

ReplacesLowest(lowest_precedence, p) == ~(lowest_precedence < p)

\* Operator::precedence(), read from the table of the run
Precedence(o) == precedence[o]

RECURSIVE LowestOpFrom(_, _, _)
LowestOpFrom(s, j, lowest_op) ==
    IF j >= Len(s) THEN lowest_op
    ELSE IF IsTok(At(s, j), "Operator")
              /\ (lowest_op = -1
                  \/ ReplacesLowest(Precedence(At(s, lowest_op).tok.op),
                                    Precedence(At(s, j).tok.op)))
         THEN LowestOpFrom(s, j + 1, j)
         ELSE LowestOpFrom(s, j + 1, lowest_op)

lowest_op(s) == LowestOpFrom(s, 0, -1)

(***************************************************************************)
(* get_expr, get_object, get_comma_separated_exprs, get_statements and     *)
(* get_stmnt.                                                              *)
(***************************************************************************)
RECURSIVE get_expr(_), get_statements(_), get_stmnt(_), get_object(_),
          get_comma_separated_exprs(_)

\* t.len() == 1
get_expr_single(n) ==
    CASE n.k = "Braces" ->
           IF Len(n.body) = 0 THEN Ok(Value(ObjectValue(EmptyMap)))
           ELSE IF \E j \in 1..Len(n.body) : IsTok(n.body[j], "Colon")
                THEN get_object(n.body)
                ELSE Then(get_statements(n.body), LAMBDA v : Ok(Block(v)))
      [] n.k = "Parentheses" ->
           IF Len(n.body) = 0 THEN Ok(Value(Unit)) ELSE get_expr(n.body)
      [] n.k = "Brackets" ->
           Then(IF Len(n.body) > 0 THEN get_comma_separated_exprs(n.body) ELSE Ok(<<>>),
                LAMBDA v : Ok(List(v)))
      [] n.k = "Token" ->
           IF n.tok.t = "Value" THEN Ok(Value(n.tok.value))
           ELSE IF n.tok.t = "Identifier" THEN Ok(Reference(Variable(n.tok.name)))
           ELSE Err("Not a valid token expr")
      [] OTHER -> Err("Not a valid alone closure")

get_expr_closure(s) ==
    IF At(s, 0).k = "Closure"
    THEN Then(get_expr(Slice(s, 1, Len(s))),
              LAMBDA expr : Ok(Value(Function(At(s, 0).args, expr))))
    ELSE Err("invalid closure expresion")

\* the body of a loop: a Block, or the empty object standing for an empty block
LoopBody(body_expr, msg) ==
    IF body_expr.e = "Block" THEN Ok(body_expr)
    ELSE IF body_expr.e = "Value" /\ body_expr.value.v = "Object"
              /\ DOMAIN body_expr.value.fieldvals = {}
         THEN Ok(Block(<<>>))
         ELSE Err(msg)

get_expr_for(s) ==
    IF /\ IsKw(At(s, 0), "For")
       /\ IsTok(At(s, 1), "Identifier")
       /\ Len(s) > 2 /\ IsKw(At(s, 2), "In")
    THEN IF Len(s) < 5 THEN Err("invalid for loop")
         ELSE Then(get_expr(Slice(s, 3, Len(s) - 1)), LAMBDA iterator :
              Then(get_expr(Slice(s, Len(s) - 1, Len(s))), LAMBDA body_expr :
              Then(LoopBody(body_expr, "invalid for loop body"), LAMBDA body :
              Ok(ForLoop(At(s, 1).tok.name, iterator, body)))))
    ELSE Err("invalid for loop")

get_expr_while(s) ==
    IF IsKw(At(s, 0), "While")
    THEN IF Len(s) < 3 THEN Err("invalid while loop")
         ELSE Then(get_expr(Slice(s, 1, Len(s) - 1)), LAMBDA condition :
              Then(get_expr(Slice(s, Len(s) - 1, Len(s))), LAMBDA body_expr :
              Then(LoopBody(body_expr, "invalid while loop body"), LAMBDA body :
              Ok(WhileLoop(condition, body)))))
    ELSE Err("invalid while loop")

\* if .. else ..: the slices are taken around the position of `else`
get_expr_if_else(s, if_i, else_pos) ==
    IF Len(s) < 5 THEN Err("invalid if statement")
    ELSE IF ~InRange(s, if_i + 1, else_pos - 1) THEN Panic
    ELSE Then(get_expr(Slice(s, if_i + 1, else_pos - 1)), LAMBDA cond :
         Then(get_expr(Slice(s, else_pos - 1, else_pos)), LAMBDA e1 :
         IF ~InRange(s, else_pos + 1, else_pos + 2) THEN Panic
         ELSE Then(get_expr(Slice(s, else_pos + 1, else_pos + 2)), LAMBDA e2 :
              IF e1.e = "Block" /\ e2.e = "Block"
              THEN Ok(IfElse(cond, e1, <<e2>>))
              ELSE Err("invalid if else body"))))

\* if without else: the last node is the body
get_expr_if(s, if_i) ==
    IF Len(s) < 3 THEN Err("invalid if statement")
    ELSE IF ~InRange(s, if_i + 1, Len(s) - 1) THEN Panic
    ELSE Then(get_expr(Slice(s, if_i + 1, Len(s) - 1)), LAMBDA cond :
         Then(get_expr(Slice(s, Len(s) - 1, Len(s))), LAMBDA e1 :
         IF e1.e = "Block" THEN Ok(IfElse(cond, e1, <<>>))
         ELSE Err("invalid if body")))

UnaryOf(o) ==
    CASE o = "Add" -> Ok("UnaryPlus")
      [] o = "Subtract" -> Ok("Negate")
      [] o = "Not" -> Ok("Not")
      [] OTHER -> Err("no such unary operator")

\* the split at the chosen operator, at index j
get_expr_operator(s, j) ==
    IF j = 0
    THEN Then(get_expr(Slice(s, j + 1, Len(s))), LAMBDA x :
         Then(UnaryOf(At(s, j).tok.op), LAMBDA unary_op :
         Ok(UnaryOperator(x, unary_op))))
    ELSE Then(get_expr(Slice(s, 0, j)), LAMBDA e1 :
         Then(get_expr(Slice(s, j + 1, Len(s))), LAMBDA e2 :
         Ok(BinaryOperator(e1, e2, At(s, j).tok.op))))

\* no operator: a trailing call, index or field access
get_expr_trailing(s, last) ==
    IF last.k = "Parentheses"
    THEN Then(get_expr(Slice(s, 0, Len(s) - 1)), LAMBDA fun :
         Then(IF Len(last.body) > 0 THEN get_comma_separated_exprs(last.body) ELSE Ok(<<>>),
              LAMBDA args : Ok(FunctionCall(fun, args))))
    ELSE IF last.k = "Brackets"
    THEN Then(get_expr(Slice(s, 0, Len(s) - 1)), LAMBDA fun :
         Then(get_expr(last.body), LAMBDA index :
         Ok(Reference(Index(fun, index)))))
    ELSE IF IsTok(At(s, Len(s) - 2), "Dot") /\ IsTok(last, "Identifier")
    THEN Then(get_expr(Slice(s, 0, Len(s) - 2)), LAMBDA fun :
         Ok(Reference(ObjectRef(fun, last.tok.name))))
    ELSE Err("Not a valid expr. Are you missing a semicolon?")

IsClosure(n) == n.k = "Closure"

IsFor(n) == IsKw(n, "For")

IsWhile(n) == IsKw(n, "While")

IsIf(n) == IsKw(n, "If")

IsElse(n) == IsKw(n, "Else")

get_expr(s) ==
    IF Len(s) = 0 THEN Err("Empty expr")
    ELSE IF Len(s) = 1 THEN get_expr_single(At(s, 0))
    ELSE IF Position(s, IsClosure) # -1 THEN get_expr_closure(s)
    ELSE IF Position(s, IsFor) # -1 THEN get_expr_for(s)
    ELSE IF Position(s, IsWhile) # -1 THEN get_expr_while(s)
    ELSE IF Position(s, IsIf) # -1
         THEN IF Position(s, IsElse) # -1
              THEN get_expr_if_else(s, Position(s, IsIf), Position(s, IsElse))
              ELSE get_expr_if(s, Position(s, IsIf))
    ELSE IF lowest_op(s) # -1 THEN get_expr_operator(s, lowest_op(s))
    ELSE get_expr_trailing(s, At(s, Len(s) - 1))

\* get_object: one `identifier : expr` pair per comma-separated segment;
\* t[start] and t[start + 1] are indexed before they are matched
RECURSIVE ObjectFrom(_, _, _, _)
ObjectPair(s, commas, n, exprs, start, end) ==
    IF start + 1 >= Len(s) THEN Panic
    ELSE IF IsTok(At(s, start), "Identifier") /\ IsTok(At(s, start + 1), "Colon")
    THEN IF ~InRange(s, start + 2, end) THEN Panic
         ELSE Then(get_expr(Slice(s, start + 2, end)), LAMBDA expr :
              ObjectFrom(s, commas, n + 1, Bind(exprs, At(s, start).tok.name, expr)))
    ELSE Err("invalid variable name")

ObjectFrom(s, commas, n, exprs) ==
    IF n > Len(commas) THEN Ok(Object(exprs))
    ELSE ObjectPair(s, commas, n, exprs, SegStart(commas, n), SegEnd(commas, n, Len(s)))

get_object(s) == ObjectFrom(s, Positions(s, IsComma), 0, EmptyMap)

RECURSIVE ExprsFrom(_, _, _, _)
ExprsFrom(s, commas, n, exprs) ==
    IF n > Len(commas) THEN Ok(exprs)
    ELSE Then(get_expr(Slice(s, SegStart(commas, n), SegEnd(commas, n, Len(s)))),
              LAMBDA expr : ExprsFrom(s, commas, n + 1, Append(exprs, expr)))

get_comma_separated_exprs(s) == ExprsFrom(s, Positions(s, IsComma), 0, <<>>)

\* get_stmnt
IsAssign(n) == IsTok(n, "Assign")

IsOperatorAssign(n) == IsTok(n, "OperatorAssign")

get_stmnt_let(s) ==
    IF Len(s) > 2 /\ IsTok(At(s, 1), "Identifier") /\ IsTok(At(s, 2), "Assign")
    THEN Then(get_expr(Slice(s, 3, Len(s))),
              LAMBDA expr : Ok(VariableDefinition(At(s, 1).tok.name, expr)))
    ELSE Err("Invalid VariableDefinition Statement")

get_stmnt_assign(s, j) ==
    Then(get_expr(Slice(s, 0, j)), LAMBDA expr :
    Then(get_expr(Slice(s, j + 1, Len(s))), LAMBDA val_expr :
    IF expr.e = "Reference" THEN Ok(VariableAssignment(expr.ref, val_expr))
    ELSE Err("can only assign to a reference")))

get_stmnt_operator_assign(s, j) ==
    Then(get_expr(Slice(s, 0, j)), LAMBDA expr :
    Then(get_expr(Slice(s, j + 1, Len(s))), LAMBDA val_expr :
    IF expr.e = "Reference"
    THEN Ok(VariableAssignment(expr.ref, BinaryOperator(expr, val_expr, At(s, j).tok.op)))
    ELSE Err("can only assign to a reference")))

get_stmnt(s) ==
    IF Len(s) > 0 /\ IsKw(At(s, 0), "Let") THEN get_stmnt_let(s)
    ELSE IF Len(s) > 0 /\ IsKw(At(s, 0), "Return")
    THEN IF Len(s) > 1
         THEN Then(get_expr(Slice(s, 1, Len(s))), LAMBDA expr : Ok(Return(expr)))
         ELSE Ok(Return(Value(Unit)))
    ELSE IF Len(s) > 0 /\ IsKw(At(s, 0), "Break")
    THEN IF Len(s) > 1
         THEN Then(get_expr(Slice(s, 1, Len(s))), LAMBDA expr : Ok(Break(expr)))
         ELSE Ok(Break(Value(Unit)))
    ELSE IF Len(s) > 0 /\ IsKw(At(s, 0), "Continue")
    THEN IF Len(s) > 1 THEN Err("invalid statement after continue") ELSE Ok(Continue)
    ELSE IF Position(s, IsAssign) # -1 THEN get_stmnt_assign(s, Position(s, IsAssign))
    ELSE IF Position(s, IsOperatorAssign) # -1
    THEN get_stmnt_operator_assign(s, Position(s, IsOperatorAssign))
    ELSE Then(get_expr(s), LAMBDA expr : Ok(ExprStmt(expr)))

\* get_statements: one statement per non-empty segment between semicolons;
\* without a final semicolon a last Expr statement becomes ImplicitReturn
RECURSIVE StatementsFrom(_, _, _, _)
StatementsFrom(s, semis, n, statements) ==
    IF n > Len(semis) THEN Ok(statements)
    ELSE IF SegEnd(semis, n, Len(s)) - SegStart(semis, n) > 0
         THEN Then(get_stmnt(Slice(s, SegStart(semis, n), SegEnd(semis, n, Len(s)))),
                   LAMBDA stmnt : StatementsFrom(s, semis, n + 1, Append(statements, stmnt)))
         ELSE StatementsFrom(s, semis, n + 1, statements)

\* mutant: the last statement is reclassified whatever the last node is
ReclassifyLastAlways(s, statements) ==
    IF Len(statements) > 0
    THEN IF statements[Len(statements)].s = "Expr"
         THEN Ok([statements EXCEPT ![Len(statements)] =
                     ImplicitReturn(statements[Len(statements)].expr)])
         ELSE Ok(statements)
    ELSE Err("empty block!")

ReclassifyLast(s, statements) ==
    IF Len(s) > 0 /\ IsSemicolon(At(s, Len(s) - 1)) THEN Ok(statements)
    ELSE IF Len(statements) > 0
         THEN IF statements[Len(statements)].s = "Expr"
              THEN Ok([statements EXCEPT ![Len(statements)] =
                          ImplicitReturn(statements[Len(statements)].expr)])
              ELSE Ok(statements)
         ELSE Err("empty block!")

get_statements(s) ==
    Then(StatementsFrom(s, Positions(s, IsSemicolon), 0, <<>>),
         LAMBDA statements : ReclassifyLast(s, statements))

(***************************************************************************)
(* Operators on values: evaluate_binary_op and evaluate_unary_op dispatch  *)
(* to the arithmetic of VariableValue, which is integer arithmetic on      *)
(* Numbers and a runtime error on any other operand.                       *)
(***************************************************************************)
ValueArith(a, b, o) ==
    IF a.v = "Number" /\ b.v = "Number"
    THEN CASE o = "Add" -> Ok(Number(a.num + b.num))
           [] o = "Subtract" -> Ok(Number(a.num - b.num))
           [] o = "Multiply" -> Ok(Number(a.num * b.num))
           [] o = "Equal" -> Ok(Boolean(a.num = b.num))
           [] o = "NotEqual" -> Ok(Boolean(a.num # b.num))
           [] o = "LessThan" -> Ok(Boolean(a.num < b.num))
           [] o = "LessThanOrEqual" -> Ok(Boolean(a.num <= b.num))
           [] o = "GreaterThan" -> Ok(Boolean(a.num > b.num))
           [] o = "GreaterThanOrEqual" -> Ok(Boolean(a.num >= b.num))
    ELSE Err("invalid operand types")

BinaryOps ==
    {"Add", "Subtract", "Multiply", "Equal", "NotEqual", "LessThan",
     "LessThanOrEqual", "GreaterThan", "GreaterThanOrEqual"}

evaluate_binary_op(a, b, o) ==
    IF o \in BinaryOps THEN ValueArith(a, b, o) ELSE Err("is not a binary operator!")

ValueUnary(a, o) ==
    CASE o = "Not" /\ a.v = "Boolean" -> Ok(Boolean(~a.bool))
      [] o = "Negate" /\ a.v = "Number" -> Ok(Number(0 - a.num))
      [] o = "UnaryPlus" /\ a.v = "Number" -> Ok(a)
      [] OTHER -> Err("invalid operand type")

evaluate_unary_op(a, o) ==
    IF o \in {"Not", "Negate", "UnaryPlus"} THEN ValueUnary(a, o)
    ELSE Err("is not a unary operator!")

(***************************************************************************)
(* Context and Scope: a stack of name -> value layers and the index of the *)
(* current layer.  A block or call works on its own Context and is         *)
(* reconciled into the caller's when it ends.                              *)
(***************************************************************************)
NewContext == [cur_layer |-> 0, layers |-> <<EmptyMap>>]

\* the innermost layer, from the current one outward, that binds name; -1 if none
RECURSIVE OwningLayer(_, _, _)
OwningLayer(ctx, name, l) ==
    IF l < 0 THEN -1
    ELSE IF name \in DOMAIN At(ctx.layers, l) THEN l
    ELSE OwningLayer(ctx, name, l - 1)

LayerValue(ctx, name, l) ==
    IF l = -1 THEN Err("none") ELSE Ok(At(ctx.layers, l)[name])

try_get_var(ctx, name) == LayerValue(ctx, name, OwningLayer(ctx, name, ctx.cur_layer))

Context_get_var(ctx, name) ==
    IF OwningLayer(ctx, name, ctx.cur_layer) = -1 THEN Err("Variable is not defined")
    ELSE try_get_var(ctx, name)

Context_define_var(ctx, name, val) ==
    IF name \in DOMAIN At(ctx.layers, ctx.cur_layer)
    THEN Err("Variable is already defined")
    ELSE Ok([ctx EXCEPT !.layers[ctx.cur_layer + 1] = Bind(@, name, val)])

SetInLayer(ctx, name, val, l) ==
    IF l = -1 THEN Err("Variable is not defined")
    ELSE Ok([ctx EXCEPT !.layers[l + 1] = Bind(@, name, val)])

Context_set_var(ctx, name, val) ==
    SetInLayer(ctx, name, val, OwningLayer(ctx, name, ctx.cur_layer))

create_block_context(ctx) ==
    [cur_layer |-> ctx.cur_layer + 1, layers |-> Append(ctx.layers, EmptyMap)]

\* every key of every frame of the caller takes the value the block left in
\* that frame; the frames and keys the block added are dropped
apply_block_context(ctx, inner) ==
    [ctx EXCEPT !.layers =
        [l \in 1..Len(ctx.layers) |->
            [n \in DOMAIN ctx.layers[l] |-> inner.layers[l][n]]]]

\* a fresh Context that binds only the function's own name
create_fn_context(ctx, name) ==
    [cur_layer |-> 0, layers |-> <<Bind(EmptyMap, name, try_get_var(ctx, name).val)>>]

\* only the binding of the function's own name is taken back
apply_fn_context(ctx, name, inner) ==
    [ctx EXCEPT !.layers[OwningLayer(ctx, name, ctx.cur_layer) + 1] =
        Bind(@, name, try_get_var(inner, name).val)]

(***************************************************************************)
(* The layered evaluator of main.rs.  An outcome carries the context as    *)
(* the call left it: [ok, val, ctx] or [ok, err, ctx].                     *)
(***************************************************************************)
Done(ctx, v) == [ok |-> TRUE, val |-> v, ctx |-> ctx]

Fail(ctx, msg) == [ok |-> FALSE, err |-> msg, ctx |-> ctx]

\* the ? operator on outcomes: the rest runs on the context and value
ThenCtx(r, F(_, _)) == IF r.ok THEN F(r.ctx, r.val) ELSE r

\* the outcome of a Context operation that returned d in context ctx
Stepped(ctx, d) == IF d.ok THEN Done(d.val, Unit) ELSE Fail(ctx, d.err)

RECURSIVE execute_statements(_, _), execute_statement(_, _), evaluate_expr(_, _),
          EvaluateParams(_, _, _), DefineParams(_, _, _, _)

\* for statement in statements: the first non-Unit result is returned
execute_statements(ctx, statements) ==
    IF statements = <<>> THEN Done(ctx, Unit)
    ELSE ThenCtx(execute_statement(ctx, Head(statements)), LAMBDA c, r :
         IF r # Unit THEN Done(c, r) ELSE execute_statements(c, Tail(statements)))

\* Statement::VariableDefinition
execute_definition(ctx, statement) ==
    ThenCtx(evaluate_expr(ctx, statement.expr), LAMBDA c, val :
    Stepped(c, Context_define_var(c, statement.name, val)))

\* Statement::VariableAssignment
execute_assignment(ctx, statement) ==
    ThenCtx(evaluate_expr(ctx, statement.expr), LAMBDA c, val :
    IF statement.ref.r # "Variable" THEN Fail(c, "not a variable name")
    ELSE Stepped(c, Context_set_var(c, statement.ref.name, val)))

\* the statement kinds of the parser that main has no arm for: Break and
\* ImplicitReturn carry their value upward as Return does, Continue has none
execute_control(ctx, statement) ==
    IF statement.s \in {"Break", "ImplicitReturn"}
    THEN evaluate_expr(ctx, statement.expr)
    ELSE Done(ctx, Unit)

execute_statement(ctx, statement) ==
    CASE statement.s = "VariableDefinition" -> execute_definition(ctx, statement)
      [] statement.s = "Return" -> evaluate_expr(ctx, statement.expr)
      [] statement.s = "Expr" ->
           ThenCtx(evaluate_expr(ctx, statement.expr), LAMBDA c, r : Done(c, Unit))
      [] statement.s = "VariableAssignment" -> execute_assignment(ctx, statement)
      [] OTHER -> execute_control(ctx, statement)

\* context.apply_block_context(inner_context) and the block's result
BlockEnd(ctx, result) ==
    IF ~result.ok THEN Fail(ctx, result.err)
    ELSE Done(apply_block_context(ctx, result.ctx), result.val)

\* mutant: what the block bound in its own layer replaces the caller's bindings
evaluate_block_leaking(ctx, statements) ==
    ThenCtx(execute_statements(create_block_context(ctx), statements), LAMBDA c, r :
    Done([ctx EXCEPT !.layers =
             [l \in 1..Len(ctx.layers) |->
                 [n \in DOMAIN ctx.layers[l] |->
                     IF n \in DOMAIN c.layers[Len(c.layers)]
                     THEN c.layers[Len(c.layers)][n] ELSE c.layers[l][n]]]], r))

\* mutant: the block's context is dropped without being reconciled
evaluate_block_discarding(ctx, statements) ==
    ThenCtx(execute_statements(create_block_context(ctx), statements),
            LAMBDA c, r : Done(ctx, r))

\* Expression::Block
evaluate_block(ctx, statements) ==
    BlockEnd(ctx, execute_statements(create_block_context(ctx), statements))

EvaluateParams(ctx, params, values) ==
    IF params = <<>> THEN Done(ctx, values)
    ELSE ThenCtx(evaluate_expr(ctx, Head(params)), LAMBDA c, r :
         EvaluateParams(c, Tail(params), Append(values, r)))

\* for i in 0..values.len() { inner_context.define_var(&args[i], values[i]) }
DefineParams(inner, args, values, n) ==
    IF n >= Len(values) THEN Ok(inner)
    ELSE IF n >= Len(args) THEN Panic
    ELSE Then(Context_define_var(inner, At(args, n), At(values, n)),
              LAMBDA d : DefineParams(d, args, values, n + 1))

\* context.apply_fn_context(&function_name, inner_context) and the result
CallEnd(ctx, function_name, result) ==
    IF ~result.ok THEN Fail(ctx, result.err)
    ELSE Done(apply_fn_context(ctx, function_name, result.ctx), result.val)

CallIn(ctx, function_name, body, inner_context) ==
    IF ~inner_context.ok THEN Fail(ctx, inner_context.err)
    ELSE CallEnd(ctx, function_name, evaluate_expr(inner_context.val, body))

\* mutant: the parameters are bound in the caller's current layer and the
\* body runs in the caller's context
RECURSIVE BindAll(_, _, _, _)
BindAll(ctx, args, values, n) ==
    IF n >= Len(values) \/ n >= Len(args) THEN ctx
    ELSE BindAll([ctx EXCEPT !.layers[ctx.cur_layer + 1] =
                     Bind(@, At(args, n), At(values, n))], args, values, n + 1)

CallWithInCaller(ctx, function_name, values, f) ==
    IF f.ok /\ f.val.v = "Function"
    THEN evaluate_expr(BindAll(ctx, f.val.params, values, 0), f.val.fbody)
    ELSE Fail(ctx, "Function does not exist")

CallWith(ctx, function_name, values, f) ==
    IF f.ok /\ f.val.v = "Function"
    THEN CallIn(ctx, function_name, f.val.fbody,
                DefineParams(create_fn_context(ctx, function_name), f.val.params, values, 0))
    ELSE Fail(ctx, "Function does not exist")

\* the call of a user function, after the arguments are evaluated
call_function(ctx, function_name, values) ==
    CallWith(ctx, function_name, values, try_get_var(ctx, function_name))

\* Expression::FunctionCall
evaluate_call(ctx, expr) ==
    ThenCtx(EvaluateParams(ctx, expr.callargs, <<>>), LAMBDA c, values :
    IF expr.callee.e # "Reference" \/ expr.callee.ref.r # "Variable"
    THEN Fail(c, "Function does not exist")
    ELSE IF expr.callee.ref.name = "print" THEN Done(c, Unit)
    ELSE call_function(c, expr.callee.ref.name, values))

\* Expression::IfElse
evaluate_if_else(ctx, expr) ==
    ThenCtx(evaluate_expr(ctx, expr.cond), LAMBDA c, do_if :
    IF do_if = Boolean(TRUE) THEN evaluate_expr(c, expr.then)
    ELSE IF expr.else # <<>> THEN evaluate_expr(c, expr.else[1])
    ELSE Done(c, Unit))

\* the result of an operator on values, in context ctx
Computed(ctx, x) == IF x.ok THEN Done(ctx, x.val) ELSE Fail(ctx, x.err)

evaluate_expr(ctx, expr) ==
    CASE expr.e = "Value" -> Done(ctx, expr.value)
      [] expr.e = "Block" -> evaluate_block(ctx, expr.stmts)
      [] expr.e = "BinaryOperator" ->
           ThenCtx(evaluate_expr(ctx, expr.left), LAMBDA c1, lval :
           ThenCtx(evaluate_expr(c1, expr.right), LAMBDA c2, rval :
           Computed(c2, evaluate_binary_op(lval, rval, expr.op))))
      [] expr.e = "UnaryOperator" ->
           ThenCtx(evaluate_expr(ctx, expr.operand), LAMBDA c, val :
           Computed(c, evaluate_unary_op(val, expr.op)))
      [] expr.e = "Reference" ->
           IF expr.ref.r # "Variable" THEN Fail(ctx, "not a variable name")
           ELSE Computed(ctx, Context_get_var(ctx, expr.ref.name))
      [] expr.e = "FunctionCall" -> evaluate_call(ctx, expr)
      [] expr.e = "IfElse" -> evaluate_if_else(ctx, expr)

(***************************************************************************)
(* The flat executor of executor.rs: one name -> value map.                *)
(***************************************************************************)
\* mutant: a negative index saturates to 0
AsUsizeSaturating(n) == IF n < 0 THEN 0 ELSE n

\* `i as usize` on a signed Number: a negative value wraps around
AsUsize(n) == IF n < 0 THEN n + UsizeModulus ELSE n

\* li.get(i as usize)
ListGet(li, n) ==
    IF AsUsize(n) < Len(li) THEN Ok(At(li, AsUsize(n))) ELSE Err("Index is out of bounds")

RECURSIVE eval_expr(_, _), get_var_cloned(_, _), get_var(_, _), EvalList(_, _, _)

\* VariableValue::call: the body runs on a map that binds the parameters
VariableValue_call(f, values) ==
    IF f.v = "Function" /\ Len(f.params) = Len(values)
    THEN eval_expr([n \in {f.params[j] : j \in 1..Len(values)} |->
                       values[CHOOSE j \in 1..Len(values) : f.params[j] = n]],
                   f.fbody)
    ELSE Err("not a function of these arguments")

EvalList(variables, list, values) ==
    IF list = <<>> THEN Ok(values)
    ELSE Then(eval_expr(variables, Head(list)),
              LAMBDA r : EvalList(variables, Tail(list), Append(values, r)))

\* the elements of a list value by index, and the fields of an object value
IndexInto(li, index) ==
    IF li.v = "List" /\ index.v = "Number"
    THEN ListGet(li.elems, index.num)
    ELSE Err("Variable is not a list")

FieldOf(object, field) ==
    IF object.v = "Object"
    THEN IF field \in DOMAIN object.fieldvals THEN Ok(object.fieldvals[field])
         ELSE Err("Not a field of the object")
    ELSE Err("Variable is not an object")

\* the container of an index or field read: through the reference when the
\* container expression is one, by evaluation otherwise
Container(variables, base) ==
    IF base.e = "Reference" THEN get_var_cloned(variables, base.ref)
    ELSE eval_expr(variables, base)

get_var_cloned(variables, var_expr) ==
    CASE var_expr.r = "Variable" ->
           IF var_expr.name \in DOMAIN variables THEN Ok(variables[var_expr.name])
           ELSE Err("Variable is not defined")
      [] var_expr.r = "Index" ->
           Then(eval_expr(variables, var_expr.index), LAMBDA index :
           Then(Container(variables, var_expr.base), LAMBDA li :
           IndexInto(li, index)))
      [] var_expr.r = "Object" ->
           Then(Container(variables, var_expr.base), LAMBDA object :
           FieldOf(object, var_expr.field))

\* get_var resolves to a mutable slot: [ok, val, name, path], where path is
\* the list positions and field names from the variable `name` to the slot
Slot(name, path, val) == [ok |-> TRUE, val |-> val, name |-> name, path |-> path]

IndexStep(n) == [step |-> "index", at |-> n]

FieldStep(f) == [step |-> "field", fname |-> f]

\* the ? operator on slots
ThenSlot(r, F(_)) == IF r.ok THEN F(r) ELSE r

SlotAt(li, step, val) ==
    IF val.ok THEN Slot(li.name, Append(li.path, step), val.val) ELSE val

get_var(variables, var_expr) ==
    CASE var_expr.r = "Variable" ->
           IF var_expr.name \in DOMAIN variables
           THEN Slot(var_expr.name, <<>>, variables[var_expr.name])
           ELSE Err("Variable is not defined")
      [] var_expr.r = "Index" ->
           Then(eval_expr(variables, var_expr.index), LAMBDA index :
           IF var_expr.base.e = "Reference"
           THEN ThenSlot(get_var(variables, var_expr.base.ref), LAMBDA li :
                IF li.val.v = "List" /\ index.v = "Number"
                THEN SlotAt(li, IndexStep(AsUsize(index.num)), IndexInto(li.val, index))
                ELSE Err("Variable is not a list"))
           ELSE Err("Variable is not a ref"))
      [] var_expr.r = "Object" ->
           IF var_expr.base.e = "Reference"
           THEN ThenSlot(get_var(variables, var_expr.base.ref), LAMBDA object :
                SlotAt(object, FieldStep(var_expr.field), FieldOf(object.val, var_expr.field)))
           ELSE Err("Variable is not a ref")

\* the first error among the fields of an object expression, or its value
ObjectOf(variables, fields) ==
    IF \E f \in DOMAIN fields : ~eval_expr(variables, fields[f]).ok
    THEN eval_expr(variables,
             fields[CHOOSE f \in DOMAIN fields : ~eval_expr(variables, fields[f]).ok])
    ELSE Ok(ObjectValue([f \in DOMAIN fields |-> eval_expr(variables, fields[f]).val]))

eval_expr(variables, expr) ==
    CASE expr.e = "List" ->
           Then(EvalList(variables, expr.items, <<>>), LAMBDA r : Ok(ListValue(r)))
      [] expr.e = "Object" -> ObjectOf(variables, expr.fields)
      [] expr.e = "Value" -> Ok(expr.value)
      [] expr.e = "Reference" -> get_var_cloned(variables, expr.ref)
      [] expr.e = "FunctionCall" ->
           Then(eval_expr(variables, expr.callee), LAMBDA f :
           Then(EvalList(variables, expr.callargs, <<>>), LAMBDA params :
           VariableValue_call(f, params)))
      [] expr.e = "BinaryOperator" ->
           Then(eval_expr(variables, expr.left), LAMBDA a :
           Then(eval_expr(variables, expr.right), LAMBDA b :
           evaluate_binary_op(a, b, expr.op)))
      [] expr.e = "UnaryOperator" ->
           Then(eval_expr(variables, expr.operand), LAMBDA a :
           evaluate_unary_op(a, expr.op))
      [] expr.e = "IfElse" /\ expr.else # <<>> ->
           Then(eval_expr(variables, expr.cond), LAMBDA cond :
           IF cond.v = "Boolean"
           THEN eval_expr(variables, IF cond.bool THEN expr.then ELSE expr.else[1])
           ELSE Err("condition is not a boolean"))
      [] OTHER -> Ok(Unit)

\* mutant: the binding is inserted whether or not the name is defined
define_var_by_val_overwrite(variables, var, val) ==
    [ok |-> TRUE, val |-> Unit, variables |-> Bind(variables, var, val)]

define_var_by_val(variables, var, val) ==
    IF var \in DOMAIN variables
    THEN [ok |-> FALSE, err |-> "Variable is already defined", variables |-> variables]
    ELSE [ok |-> TRUE, val |-> Unit, variables |-> Bind(variables, var, val)]

\* the outcome of a statement whose expression evaluated to r
Evaluated(variables, r, F(_)) ==
    IF r.ok THEN F(r.val) ELSE [ok |-> FALSE, err |-> r.err, variables |-> variables]

define_var(variables, var, expr) ==
    Evaluated(variables, eval_expr(variables, expr),
              LAMBDA val : define_var_by_val(variables, var, val))

\* the value with the slot at `path` replaced by `new`
RECURSIVE SetIn(_, _, _)
SetIn(value, path, new) ==
    IF path = <<>> THEN new
    ELSE IF Head(path).step = "index"
         THEN ListValue([value.elems EXCEPT ![Head(path).at + 1] = SetIn(@, Tail(path), new)])
         ELSE ObjectValue([value.fieldvals EXCEPT ![Head(path).fname] =
                              SetIn(@, Tail(path), new)])

Kept(variables, msg) == [ok |-> FALSE, err |-> msg, variables |-> variables]

Stored(variables) == [ok |-> TRUE, val |-> Unit, variables |-> variables]

\* mutant: the assignment inserts the name whether or not it is defined
assign_variable_creating(variables, var, val) == Stored(Bind(variables, var, val))

\* ReferenceExpr::Variable arm of assign_var
assign_variable(variables, var, val) ==
    IF var \notin DOMAIN variables THEN Kept(variables, "Variable is not defined")
    ELSE Stored(Bind(variables, var, val))

\* ReferenceExpr::Index arm of assign_var, on the slot of the list
assign_index(variables, list, index, val) ==
    IF ~list.ok THEN Kept(variables, list.err)
    ELSE IF list.val.v = "List" /\ index.v = "Number"
    THEN IF AsUsize(index.num) < Len(list.val.elems)
         THEN Stored([variables EXCEPT ![list.name] =
                 SetIn(@, Append(list.path, IndexStep(AsUsize(index.num))), val)])
         ELSE Kept(variables, "Index is out of bound")
    ELSE Kept(variables, "Variable is not a list")

\* ReferenceExpr::Object arm of assign_var, on the slot of the object
assign_field(variables, object, field, val) ==
    IF ~object.ok THEN Kept(variables, object.err)
    ELSE IF object.val.v = "Object"
    THEN IF field \in DOMAIN object.val.fieldvals
         THEN Stored([variables EXCEPT ![object.name] =
                 SetIn(@, Append(object.path, FieldStep(field)), val)])
         ELSE Kept(variables, "Not a field of the object")
    ELSE Kept(variables, "Variable is not an object")

assign_var(variables, var_expr, expr) ==
    Evaluated(variables, eval_expr(variables, expr), LAMBDA val :
    CASE var_expr.r = "Variable" -> assign_variable(variables, var_expr.name, val)
      [] var_expr.r = "Index" ->
           Evaluated(variables, eval_expr(variables, var_expr.index), LAMBDA index :
           IF var_expr.base.e = "Reference"
           THEN assign_index(variables, get_var(variables, var_expr.base.ref), index, val)
           ELSE Kept(variables, "Variable is not reference"))
      [] var_expr.r = "Object" ->
           IF var_expr.base.e = "Reference"
           THEN assign_field(variables, get_var(variables, var_expr.base.ref),
                             var_expr.field, val)
           ELSE Kept(variables, "Variable is not a reference"))

exec_stmnt(variables, stmnt) ==
    CASE stmnt.s = "VariableDefinition" -> define_var(variables, stmnt.name, stmnt.expr)
      [] stmnt.s = "VariableAssignment" -> assign_var(variables, stmnt.ref, stmnt.expr)
      [] stmnt.s = "Expr" ->
           Evaluated(variables, eval_expr(variables, stmnt.expr),
                     LAMBDA r : Stored(variables))

\* the loop of exec_stmnts after one statement
StmntsNext(r, F(_)) == IF ~r.ok THEN r ELSE IF r.val # Unit THEN r ELSE F(r.variables)

RECURSIVE exec_stmnts(_, _)
exec_stmnts(variables, stmnts) ==
    IF stmnts = <<>> THEN Stored(variables)
    ELSE StmntsNext(exec_stmnt(variables, Head(stmnts)),
                    LAMBDA vs : exec_stmnts(vs, Tail(stmnts)))

(***************************************************************************)
(* The reducer as a machine: the top-level while loop, one iteration per   *)
(* step; the recursive calls on enclosed slices are evaluated in the step. *)
(***************************************************************************)
DelimTokens ==
    {OpeningParethesis, ClosingParethesis, OpeningBrace, ClosingBrace,
     OpeningBracket, ClosingBracket}

ReducerAlphabet == DelimTokens \cup {VerticalBar, Comma, Identifier("a")}

SeqsUpTo(S, n) == UNION {[1..m -> S] : m \in 0..n}

ReducerInputs == SeqsUpTo(DelimTokens, MaxDelims) \cup SeqsUpTo(ReducerAlphabet, MaxTokens)

Operators == {"Add", "Subtract", "Multiply"}

NoResult == [ok |-> FALSE, err |-> "none"]

ParserIdle ==
    /\ precedence = [o \in Operators |-> 1]
    /\ nodes = <<>>
    /\ pstage = "idle"
    /\ parsed = NoResult
    /\ evaluated = NoResult

NoStatement == [s |-> "None"]

EvaluatorIdle ==
    /\ context = NewContext
    /\ executed = NoStatement
    /\ entry = NewContext
    /\ outcome = NoResult

ExecutorIdle ==
    /\ globals = EmptyMap
    /\ issued = NoStatement
    /\ held = EmptyMap
    /\ answer = NoResult

LoopIdle ==
    /\ loop = NoStatement
    /\ ambient = NewContext
    /\ position = "idle"
    /\ iterations = 0
    /\ passed = NoResult

ReducerInit ==
    /\ t \in ReducerInputs
    /\ i = 0
    /\ reduced_t = <<>>
    /\ rstatus = "run"
    /\ ParserIdle
    /\ EvaluatorIdle
    /\ ExecutorIdle
    /\ LoopIdle

\* the end of an iteration: push the node and advance, or return the error
ReduceApply(r) ==
    IF r.ok
    THEN /\ reduced_t' = Append(reduced_t, r.node)
         /\ i' = r.next
         /\ rstatus' = "run"
    ELSE /\ rstatus' = r.err
         /\ UNCHANGED <<reduced_t, i>>

ReduceParentheses ==
    /\ UNCHANGED <<pvars, evars, xvars, wvars>>
    /\ rstatus = "run" /\ i < Len(t)
    /\ At(t, i).t = "OpeningParethesis"
    /\ ReduceApply(ReduceStep(t, i))
    /\ UNCHANGED t

ReduceBraces ==
    /\ UNCHANGED <<pvars, evars, xvars, wvars>>
    /\ rstatus = "run" /\ i < Len(t)
    /\ At(t, i).t = "OpeningBrace"
    /\ ReduceApply(ReduceStep(t, i))
    /\ UNCHANGED t

ReduceBrackets ==
    /\ UNCHANGED <<pvars, evars, xvars, wvars>>
    /\ rstatus = "run" /\ i < Len(t)
    /\ At(t, i).t = "OpeningBracket"
    /\ ReduceApply(ReduceStep(t, i))
    /\ UNCHANGED t

ReduceClosure ==
    /\ UNCHANGED <<pvars, evars, xvars, wvars>>
    /\ rstatus = "run" /\ i < Len(t)
    /\ At(t, i).t = "VerticalBar"
    /\ ReduceApply(ReduceStep(t, i))
    /\ UNCHANGED t

ReduceToken ==
    /\ UNCHANGED <<pvars, evars, xvars, wvars>>
    /\ rstatus = "run" /\ i < Len(t)
    /\ At(t, i).t \notin {"OpeningParethesis", "OpeningBrace", "OpeningBracket", "VerticalBar"}
    /\ ReduceApply(ReduceStep(t, i))
    /\ UNCHANGED t

ReduceReturn ==
    /\ rstatus = "run"
    /\ i >= Len(t)
    /\ rstatus' = "ok"
    /\ UNCHANGED <<t, i, reduced_t>>
    /\ UNCHANGED <<pvars, evars, xvars, wvars>>

ReducerNext ==
    \/ ReduceParentheses
    \/ ReduceBraces
    \/ ReduceBrackets
    \/ ReduceClosure
    \/ ReduceToken
    \/ ReduceReturn

SpecReduce == ReducerInit /\ [][ReducerNext]_vars

(***************************************************************************)
(* The parser as a machine: a slice is parsed by get_expr or by            *)
(* get_statements, and what was parsed is evaluated in a new Context, as   *)
(* main does.                                                              *)
(***************************************************************************)
Num(n) == PToken(ValueTok(Number(n)))

Op(o) == PToken(OperatorTok(o))

Ident(n) == PToken(Identifier(n))

Kw(k) == PToken(Keyword(k))

ChainAlphabet == {Num(2), Num(3)} \cup {Op(o) : o \in Operators}

ExampleChains ==
    {<<Num(1), Op("Add"), Num(2), Op("Multiply"), Num(3)>>,
     <<Num(10), Op("Subtract"), Num(3), Op("Subtract"), Num(2)>>,
     <<Num(10), Op("Subtract"), Num(3), Op("Add"), Num(2), Op("Subtract"), Num(1)>>}

ChainInputs == (SeqsUpTo(ChainAlphabet, MaxChain) \ {<<>>}) \cup ExampleChains

ShapeAlphabet ==
    {Kw("If"), Kw("Else"), PToken(Comma), PToken(Colon), Ident("c"),
     Braces(<<Num(2)>>)}

ObjectAlphabet == {Ident("a"), PToken(Colon), PToken(Comma), Num(2)}

\* if c {2} else {3}
IfCElse == <<Kw("If"), Ident("c"), Braces(<<Num(2)>>), Kw("Else"), Braces(<<Num(3)>>)>>

\* 1 + if c {2} else {3}, and if c {2} else {3} c
ExampleShapes == {<<Num(1), Op("Add")>> \o IfCElse, IfCElse \o <<Ident("c")>>}

ShapeInputs ==
    (SeqsUpTo(ShapeAlphabet, MaxShape) \ {<<>>})
        \cup {<<Braces(b)>> : b \in SeqsUpTo(ObjectAlphabet, MaxShape)}
        \cup ExampleShapes

StmtAlphabet ==
    {PToken(Semicolon), Num(2), Ident("x"), Kw("Let"), PToken(Assign), Kw("Return")}

LetX2 == <<Kw("Let"), Ident("x"), PToken(Assign), Num(2)>>

ExampleStmts ==
    {LetX2 \o <<PToken(Semicolon), Num(3)>>,
     LetX2 \o <<PToken(Semicolon), Num(3), PToken(Semicolon)>>,
     LetX2 \o <<PToken(Semicolon), Ident("x")>>,
     LetX2 \o <<PToken(Semicolon), Ident("x"), PToken(Semicolon)>>,
     <<Braces(<<Num(2), PToken(Semicolon), Num(3)>>)>>,
     <<Braces(<<Num(2), PToken(Semicolon), Num(3), PToken(Semicolon)>>)>>,
     <<Braces(<<PToken(Semicolon)>>)>>,
     <<PToken(Semicolon), PToken(Semicolon)>>}

StmtInputs == SeqsUpTo(StmtAlphabet, MaxStmtNodes) \cup ExampleStmts

ReducerIdle ==
    /\ t = <<>>
    /\ i = 0
    /\ reduced_t = <<>>
    /\ rstatus = "idle"

ParserInit ==
    /\ \/ /\ nodes \in ChainInputs
          /\ precedence \in [Operators -> 1..MaxPrecedence]
       \/ /\ nodes \in ShapeInputs \cup StmtInputs
          /\ precedence = [o \in Operators |-> 1]
    /\ pstage = "input"
    /\ parsed = NoResult
    /\ evaluated = NoResult
    /\ ReducerIdle
    /\ EvaluatorIdle
    /\ ExecutorIdle
    /\ LoopIdle

\* the expressions and statements evaluate_expr and execute_statement have arms for
RECURSIVE EvaluableExpr(_), EvaluableStmt(_)
EvaluableExpr(x) ==
    CASE x.e = "Value" -> TRUE
      [] x.e = "Block" -> \A j \in 1..Len(x.stmts) : EvaluableStmt(x.stmts[j])
      [] x.e = "BinaryOperator" -> EvaluableExpr(x.left) /\ EvaluableExpr(x.right)
      [] x.e = "UnaryOperator" -> EvaluableExpr(x.operand)
      [] x.e = "Reference" -> x.ref.r = "Variable"
      [] x.e = "FunctionCall" ->
           /\ EvaluableExpr(x.callee)
           /\ \A j \in 1..Len(x.callargs) : EvaluableExpr(x.callargs[j])
      [] x.e = "IfElse" ->
           /\ EvaluableExpr(x.cond) /\ EvaluableExpr(x.then)
           /\ \A j \in 1..Len(x.else) : EvaluableExpr(x.else[j])
      [] OTHER -> FALSE

EvaluableStmt(st) ==
    CASE st.s = "Continue" -> TRUE
      [] st.s = "VariableAssignment" -> st.ref.r = "Variable" /\ EvaluableExpr(st.expr)
      [] OTHER -> EvaluableExpr(st.expr)

ParseExpr ==
    /\ pstage = "input"
    /\ parsed' = get_expr(nodes)
    /\ pstage' = "expr"
    /\ UNCHANGED <<precedence, nodes, evaluated>>
    /\ UNCHANGED <<rvars, evars, xvars, wvars>>

ParseStatements ==
    /\ pstage = "input"
    /\ parsed' = get_statements(nodes)
    /\ pstage' = "stmts"
    /\ UNCHANGED <<precedence, nodes, evaluated>>
    /\ UNCHANGED <<rvars, evars, xvars, wvars>>

EvaluateParsedExpr ==
    /\ pstage = "expr"
    /\ parsed.ok
    /\ EvaluableExpr(parsed.val)
    /\ evaluated' = evaluate_expr(NewContext, parsed.val)
    /\ pstage' = "evaluated"
    /\ UNCHANGED <<precedence, nodes, parsed>>
    /\ UNCHANGED <<rvars, evars, xvars, wvars>>

ExecuteParsedStatements ==
    /\ pstage = "stmts"
    /\ parsed.ok
    /\ \A j \in 1..Len(parsed.val) : EvaluableStmt(parsed.val[j])
    /\ evaluated' = execute_statements(NewContext, parsed.val)
    /\ pstage' = "executed"
    /\ UNCHANGED <<precedence, nodes, parsed>>
    /\ UNCHANGED <<rvars, evars, xvars, wvars>>

ParserNext ==
    \/ ParseExpr
    \/ ParseStatements
    \/ EvaluateParsedExpr
    \/ ExecuteParsedStatements

SpecParse == ParserInit /\ [][ParserNext]_vars

(***************************************************************************)
(* The evaluator as a machine: the loop of execute_statements in main, one *)
(* statement of the program per step.  The loop ends at the first error    *)
(* and at the first statement whose result is not Unit.                    *)
(***************************************************************************)
Let(n, x) == VariableDefinition(n, x)

Set(n, x) == VariableAssignment(Variable(n), x)

Read(n) == Reference(Variable(n))

Const(n) == Value(Number(n))

\* |a| { a = a + 1; a }
Increment ==
    Function(<<"a">>,
             Block(<<Set("a", BinaryOperator(Read("a"), Const(1), "Add")),
                     ImplicitReturn(Read("a"))>>))

DefinitionStatements ==
    {Let(n, Const(v)) : n \in {"x", "a"}, v \in {1, 5}}
        \cup {Let("f", Value(Increment))}

AssignmentStatements == {Set(n, Const(v)) : n \in {"x", "a"}, v \in {2, 3}}

InnerStatements ==
    {Let("x", Const(2)), Let("z", Const(2)), Set("x", Const(2)),
     Set("z", Const(3)), ExprStmt(Block(<<Set("x", Const(3))>>)),
     ExprStmt(Block(<<Let("x", Const(3))>>))}

BlockStatements ==
    {ExprStmt(Block(b)) : b \in SeqsUpTo(InnerStatements, MaxBlockLen) \ {<<>>}}

\* f(5), f(a), f(x), and f() and f(5, 5) for a function of one parameter
CallStatements ==
    {Return(FunctionCall(Read("f"), <<x>>)) : x \in {Const(5), Read("a"), Read("x")}}
        \cup {Return(FunctionCall(Read("f"), <<>>)),
              Return(FunctionCall(Read("f"), <<Const(5), Const(5)>>))}

ReadStatements == {Return(Read(n)) : n \in {"x", "z", "a"}}

\* return if c { 1 } else { 2 }, and the same without the else arm
ConditionalStatements ==
    {Return(IfElse(c, Const(1), rest)) :
        c \in {Value(Boolean(TRUE)), Value(Boolean(FALSE)), Const(0), Read("x")},
        rest \in {<<>>, <<Const(2)>>}}

EvaluatorInit ==
    /\ EvaluatorIdle
    /\ ReducerIdle
    /\ ParserIdle
    /\ ExecutorIdle
    /\ LoopIdle

\* the loop of execute_statements goes on
Looping(r) == r = NoResult \/ (r.ok /\ r.val = Unit)

\* one iteration of the loop, on statement st
Execute(st) ==
    /\ outcome' = execute_statement(context, st)
    /\ context' = outcome'.ctx
    /\ entry' = context
    /\ executed' = st

ExecuteDefinition ==
    /\ Looping(outcome)
    /\ \E st \in DefinitionStatements : Execute(st)
    /\ UNCHANGED <<rvars, pvars, xvars, wvars>>

ExecuteAssignment ==
    /\ Looping(outcome)
    /\ \E st \in AssignmentStatements : Execute(st)
    /\ UNCHANGED <<rvars, pvars, xvars, wvars>>

ExecuteBlock ==
    /\ Looping(outcome)
    /\ \E st \in BlockStatements : Execute(st)
    /\ UNCHANGED <<rvars, pvars, xvars, wvars>>

ExecuteCall ==
    /\ Looping(outcome)
    /\ \E st \in CallStatements : Execute(st)
    /\ UNCHANGED <<rvars, pvars, xvars, wvars>>

ExecuteRead ==
    /\ Looping(outcome)
    /\ \E st \in ReadStatements : Execute(st)
    /\ UNCHANGED <<rvars, pvars, xvars, wvars>>

ExecuteConditional ==
    /\ Looping(outcome)
    /\ \E st \in ConditionalStatements : Execute(st)
    /\ UNCHANGED <<rvars, pvars, xvars, wvars>>

EvaluatorNext ==
    \/ ExecuteDefinition
    \/ ExecuteAssignment
    \/ ExecuteBlock
    \/ ExecuteCall
    \/ ExecuteRead
    \/ ExecuteConditional

SpecEvaluate == EvaluatorInit /\ [][EvaluatorNext]_vars

(***************************************************************************)
(* The WhileLoop arm of execute_statement as a machine: one evaluation of  *)
(* the condition or of the body per step.                                  *)
(***************************************************************************)
While(c, b) == [s |-> "WhileLoop", cond |-> c, loopbody |-> b]

\* x = x + 1
CountUp == Set("x", BinaryOperator(Read("x"), Const(1), "Add"))

LoopConditions ==
    {Value(Boolean(TRUE)), Value(Boolean(FALSE)), Const(1),
     BinaryOperator(Read("x"), Const(MaxIterations), "LessThan"), Read("y")}

LoopBodies ==
    {Block(<<CountUp>>), Block(<<Return(Const(5))>>),
     Block(<<CountUp, Return(Read("x"))>>), Block(<<Break(Const(5))>>),
     Block(<<Let("y", Const(1))>>), Block(<<Return(Read("y"))>>)}

LoopStatements == {While(c, b) : c \in LoopConditions, b \in LoopBodies}

\* the contexts of main after let x = 0 and after let x = 2
LoopScopes == {Context_define_var(NewContext, "x", Number(n)).val : n \in {0, 2}}

WhileInit ==
    /\ loop \in LoopStatements
    /\ ambient \in LoopScopes
    /\ position = "condition"
    /\ iterations = 0
    /\ passed = NoResult
    /\ ReducerIdle
    /\ ParserIdle
    /\ EvaluatorIdle
    /\ ExecutorIdle

\* let do_iter = evaluate_expr(context, condition.clone())?; the test of do_iter
WhileCondition ==
    /\ position = "condition"
    /\ iterations < MaxIterations
    /\ LET do_iter == evaluate_expr(ambient, loop.cond)
       IN /\ ambient' = do_iter.ctx
          /\ position' = IF ~do_iter.ok THEN "failed"
                         ELSE IF do_iter.val = Boolean(TRUE) THEN "body"
                         ELSE "done"
    /\ UNCHANGED <<loop, iterations, passed>>
    /\ UNCHANGED <<rvars, pvars, evars, xvars>>

\* evaluate_expr(context, body.clone())?;
WhileBody ==
    /\ position = "body"
    /\ passed' = evaluate_expr(ambient, loop.loopbody)
    /\ ambient' = passed'.ctx
    /\ position' = IF passed'.ok THEN "condition" ELSE "failed"
    /\ iterations' = iterations + 1
    /\ UNCHANGED loop
    /\ UNCHANGED <<rvars, pvars, evars, xvars>>

WhileNext ==
    \/ WhileCondition
    \/ WhileBody

SpecWhile == WhileInit /\ [][WhileNext]_vars

(***************************************************************************)
(* The flat executor as a machine: the loop of exec_stmnts, one statement  *)
(* per step, ending at the first error.                                    *)
(***************************************************************************)
IndexValues == (0 - MaxIndex)..MaxIndex

ListOf(ns) == List([j \in 1..Len(ns) |-> Const(ns[j])])

ListExprs == {ListOf(<<1, 2, 3>>), ListOf(<<7>>), List(<<>>)}

\* l[n], and [1, 2, 3][n]
ElementOf(base, n) == Reference(Index(base, Const(n)))

ElementExprs ==
    {ElementOf(b, n) : b \in {Read("l"), Read("x"), ListOf(<<1, 2, 3>>)}, n \in IndexValues}

FlatDefinitions ==
    {Let(n, x) : n \in {"x", "y"}, x \in {Const(1), Const(2), Read("x")}}
        \cup {Let("l", x) : x \in ListExprs}
        \cup {Let("m", List(<<ListOf(<<1>>), ListOf(<<2>>)>>))}

FlatReads == {Let("y", x) : x \in ElementExprs}

FlatAssignments ==
    {Set(n, Const(9)) : n \in {"x", "y"}}
        \cup {Set("y", Read("x"))}
        \cup {VariableAssignment(Index(Read("l"), Const(n)), Const(9)) : n \in IndexValues}
        \cup {VariableAssignment(Index(ElementOf(Read("m"), n), Const(0)), Const(9)) :
                 n \in IndexValues}

ExecutorInit ==
    /\ ExecutorIdle
    /\ ReducerIdle
    /\ ParserIdle
    /\ EvaluatorIdle
    /\ LoopIdle

\* one iteration of the loop, on statement st
Exec(st) ==
    /\ answer' = exec_stmnt(globals, st)
    /\ globals' = answer'.variables
    /\ held' = globals
    /\ issued' = st

ExecDefinition ==
    /\ answer = NoResult \/ answer.ok
    /\ \E st \in FlatDefinitions : Exec(st)
    /\ UNCHANGED <<rvars, pvars, evars, wvars>>

ExecRead ==
    /\ answer = NoResult \/ answer.ok
    /\ \E st \in FlatReads : Exec(st)
    /\ UNCHANGED <<rvars, pvars, evars, wvars>>

ExecAssignment ==
    /\ answer = NoResult \/ answer.ok
    /\ \E st \in FlatAssignments : Exec(st)
    /\ UNCHANGED <<rvars, pvars, evars, wvars>>

ExecutorNext ==
    \/ ExecDefinition
    \/ ExecRead
    \/ ExecAssignment

SpecExecute == ExecutorInit /\ [][ExecutorNext]_vars

(***************************************************************************)
(* Properties of the reducer.                                              *)
(***************************************************************************)
ReducerDone == rstatus # "run"

DelimOnly(s) == \A j \in 1..Len(s) : s[j] \in DelimTokens

OpenOf(kind) ==
    CASE kind = "Parentheses" -> OpeningParethesis
      [] kind = "Braces" -> OpeningBrace
      [] kind = "Brackets" -> OpeningBracket

CloseOf(kind) ==
    CASE kind = "Parentheses" -> ClosingParethesis
      [] kind = "Braces" -> ClosingBrace
      [] kind = "Brackets" -> ClosingBracket

IsOpening(tkn) == tkn.t \in {"OpeningParethesis", "OpeningBrace", "OpeningBracket"}

KindOfToken(tkn) ==
    CASE tkn.t \in {"OpeningParethesis", "ClosingParethesis"} -> "Parentheses"
      [] tkn.t \in {"OpeningBrace", "ClosingBrace"} -> "Braces"
      [] tkn.t \in {"OpeningBracket", "ClosingBracket"} -> "Brackets"

\* The textbook stack discipline over a delimiter-only sequence: "crossed" as
\* soon as a closing delimiter meets an open delimiter of another kind,
\* otherwise "stray" (a close with nothing open), "unclosed" or "nested".
RECURSIVE Nesting(_, _, _, _)
Nesting(s, j, stack, stray) ==
    IF j > Len(s)
    THEN IF stray THEN "stray" ELSE IF stack # <<>> THEN "unclosed" ELSE "nested"
    ELSE IF IsOpening(s[j])
         THEN Nesting(s, j + 1, <<KindOfToken(s[j])>> \o stack, stray)
         ELSE IF stack = <<>> THEN Nesting(s, j + 1, stack, TRUE)
              ELSE IF Head(stack) # KindOfToken(s[j]) THEN "crossed"
                   ELSE Nesting(s, j + 1, Tail(stack), stray)

\* the token sequence a node sequence stands for
RECURSIVE Flatten(_)
Flatten(ns) ==
    IF ns = <<>> THEN <<>>
    ELSE LET n == Head(ns)
         IN (IF n.k = "Token" THEN <<n.tok>>
             ELSE <<OpenOf(n.k)>> \o Flatten(n.body) \o <<CloseOf(n.k)>>)
            \o Flatten(Tail(ns))

\* every node is a group, at every level
RECURSIVE OnlyGroups(_)
OnlyGroups(ns) ==
    \A j \in 1..Len(ns) :
        ns[j].k \in {"Parentheses", "Braces", "Brackets"} /\ OnlyGroups(ns[j].body)

MatchErrors ==
    {"No matching closing parenthesis!", "No matching closing brace!",
     "No matching closing bracket!"}

\* C1: on a sequence of parentheses, braces and brackets the reducer returns
\* the group tree of the sequence when the delimiters are properly nested
\* across kinds, and a missing-delimiter syntax error when an opening
\* delimiter is closed by a delimiter of another kind.
C1_NestedReducesCrossedFails ==
    (ReducerDone /\ DelimOnly(t)) =>
        LET n == Nesting(t, 1, <<>>, FALSE)
        IN /\ n = "nested" =>
                /\ rstatus = "ok"
                /\ OnlyGroups(reduced_t)
                /\ Flatten(reduced_t) = t
           /\ n = "crossed" => rstatus \in MatchErrors

C1_Witness ==
    /\ rstatus = "ok"
    /\ t = <<OpeningParethesis, OpeningBracket, OpeningBrace,
             ClosingBrace, ClosingBracket, ClosingParethesis>>
    /\ reduced_t = <<Parentheses(<<Brackets(<<Braces(<<>>)>>)>>)>>

(***************************************************************************)
(* Properties of the parser.                                               *)
(***************************************************************************)
\* 0-based indices of the operator tokens of a slice
OperatorIndices(s) == {j \in 0..(Len(s) - 1) : IsTok(At(s, j), "Operator")}

OperatorAt(s, j) == At(s, j).tok.op

\* the binary operator a unary operator is written with
WrittenAs(o) ==
    CASE o = "UnaryPlus" -> "Add"
      [] o = "Negate" -> "Subtract"
      [] OTHER -> o

\* the operators, as written, of an expression tree of values and operators
RECURSIVE OperatorsIn(_)
OperatorsIn(x) ==
    CASE x.e = "BinaryOperator" -> {x.op} \cup OperatorsIn(x.left) \cup OperatorsIn(x.right)
      [] x.e = "UnaryOperator" -> {WrittenAs(x.op)} \cup OperatorsIn(x.operand)
      [] OTHER -> {}

\* the operators of the slice have pairwise different precedence values
DistinctPrecedence(s) ==
    \A j, k \in OperatorIndices(s) :
        j # k => Precedence(OperatorAt(s, j)) # Precedence(OperatorAt(s, k))

OnePlusTwoTimesThree == <<Num(1), Op("Add"), Num(2), Op("Multiply"), Num(3)>>

\* C2: when the operators of a slice have pairwise different precedence
\* values and none is at position 0, the tree get_expr returns has at its
\* root the operator of lowest precedence value, as a binary operator, and
\* every operator inside its operands has a higher precedence value; with
\* precedence(Add) < precedence(Multiply), 1 + 2 * 3 parses as
\* Add(1, Multiply(2, 3)) and evaluates to 7.
C2_LowestPrecedenceAtRoot ==
    /\ (/\ pstage = "expr" /\ parsed.ok
        /\ OperatorIndices(nodes) # {} /\ 0 \notin OperatorIndices(nodes)
        /\ \A j \in 1..Len(nodes) : nodes[j].k = "Token"
        /\ DistinctPrecedence(nodes))
       => /\ parsed.val.e = "BinaryOperator"
          /\ \A j \in OperatorIndices(nodes) :
                 Precedence(parsed.val.op) <= Precedence(OperatorAt(nodes, j))
          /\ \A o \in OperatorsIn(parsed.val.left) \cup OperatorsIn(parsed.val.right) :
                 Precedence(o) > Precedence(parsed.val.op)
          /\ OperatorsIn(parsed.val) = {OperatorAt(nodes, j) : j \in OperatorIndices(nodes)}
    /\ (/\ nodes = OnePlusTwoTimesThree
        /\ Precedence("Add") < Precedence("Multiply"))
       => /\ pstage = "expr" =>
                parsed = Ok(BinaryOperator(Value(Number(1)),
                                BinaryOperator(Value(Number(2)), Value(Number(3)), "Multiply"),
                                "Add"))
          /\ pstage = "evaluated" => evaluated.ok /\ evaluated.val = Number(7)

C2_Witness ==
    /\ pstage = "evaluated"
    /\ nodes = OnePlusTwoTimesThree
    /\ Precedence("Add") < Precedence("Multiply")
    /\ parsed.val.op = "Add"
    /\ evaluated.val = Number(7)

\* value op value op ... value
Alternating(s) ==
    /\ Len(s) % 2 = 1
    /\ \A j \in 1..Len(s) :
          IF j % 2 = 1 THEN IsTok(s[j], "Value") ELSE IsTok(s[j], "Operator")

EqualPrecedence(s) ==
    \A j, k \in OperatorIndices(s) :
        Precedence(OperatorAt(s, j)) = Precedence(OperatorAt(s, k))

\* the left-associative grouping of an alternating chain
RECURSIVE LeftGrouping(_)
LeftGrouping(s) ==
    IF Len(s) = 1 THEN Value(s[1].tok.value)
    ELSE BinaryOperator(LeftGrouping(SubSeq(s, 1, Len(s) - 2)),
                        Value(s[Len(s)].tok.value),
                        s[Len(s) - 1].tok.op)

TenMinusThreeMinusTwo == <<Num(10), Op("Subtract"), Num(3), Op("Subtract"), Num(2)>>

\* C3: a chain of binary operators of equal precedence is parsed by get_expr
\* into the left-associative grouping, a op1 b op2 c as (a op1 b) op2 c, and
\* 10 - 3 - 2 evaluates to 5.
C3_EqualPrecedenceGroupsLeft ==
    /\ (pstage = "expr" /\ Alternating(nodes) /\ EqualPrecedence(nodes))
       => parsed = Ok(LeftGrouping(nodes))
    /\ (pstage = "evaluated" /\ nodes = TenMinusThreeMinusTwo)
       => evaluated.ok /\ evaluated.val = Number(5)

C3_Witness ==
    /\ pstage = "evaluated"
    /\ nodes = TenMinusThreeMinusTwo
    /\ parsed.val.left.e = "BinaryOperator"
    /\ evaluated.val = Number(5)

\* the non-empty runs of nodes between semicolons, in order
RECURSIVE SegmentsOf(_, _)
SegmentsOf(s, cur) ==
    IF s = <<>> THEN (IF cur = <<>> THEN <<>> ELSE <<cur>>)
    ELSE IF IsSemicolon(Head(s))
         THEN (IF cur = <<>> THEN <<>> ELSE <<cur>>) \o SegmentsOf(Tail(s), <<>>)
         ELSE SegmentsOf(Tail(s), Append(cur, Head(s)))

EndsWithSemicolon(s) == s # <<>> /\ IsSemicolon(s[Len(s)])

\* the statement list is the statements of the segments, the last one
\* reclassified exactly when it is an Expr and no semicolon ends the sequence
StatementsAsSplit(s, statements) ==
    LET segs == SegmentsOf(s, <<>>)
    IN /\ Len(statements) = Len(segs)
       /\ \A j \in 1..Len(segs) :
             LET st == get_stmnt(segs[j])
                 reclassified == j = Len(segs) /\ ~EndsWithSemicolon(s)
                                     /\ st.val.s = "Expr"
             IN /\ st.ok
                /\ statements[j].s = "ImplicitReturn" <=> reclassified
                /\ statements[j] = IF reclassified THEN ImplicitReturn(st.val.expr)
                                   ELSE st.val

\* the value of a statement list whose last statement is reached: that of
\* the last expression when it is an ImplicitReturn, Unit when it is an Expr
ValueOfLast(statements, result) ==
    LET n == Len(statements)
        last == statements[n]
        before == execute_statements(NewContext, SubSeq(statements, 1, n - 1))
    IN (n > 0 /\ before.ok /\ before.val = Unit /\ last.s \in {"ImplicitReturn", "Expr"})
       => LET e == evaluate_expr(before.ctx, last.expr)
          IN IF last.s = "ImplicitReturn" THEN result = e
             ELSE result.ok = e.ok /\ (e.ok => result.val = Unit)

TwoThenThree == <<Num(2), PToken(Semicolon), Num(3)>>

\* C7: get_statements returns the statements of the segments between
\* semicolons in order, and the last one is an ImplicitReturn if and only if
\* the node sequence does not end with a semicolon and the last statement
\* parsed as an Expr; a statement list that ends in an unterminated
\* expression has that expression's value, the same list with a final
\* semicolon has value Unit, and so have the blocks { 2; 3 } and { 2; 3; }.
C7_ImplicitReturnIffUnterminatedExpr ==
    /\ (pstage = "stmts" /\ parsed.ok) =>
          /\ StatementsAsSplit(nodes, parsed.val)
          /\ ~EndsWithSemicolon(nodes) =>
                LET terminated == get_statements(Append(nodes, PToken(Semicolon)))
                IN /\ terminated.ok
                   /\ StatementsAsSplit(Append(nodes, PToken(Semicolon)), terminated.val)
                   /\ (\A j \in 1..Len(terminated.val) : EvaluableStmt(terminated.val[j]))
                         => ValueOfLast(terminated.val,
                                        execute_statements(NewContext, terminated.val))
    /\ pstage = "executed" => ValueOfLast(parsed.val, evaluated)
    /\ pstage = "evaluated" =>
          /\ nodes = <<Braces(TwoThenThree)>> => evaluated.ok /\ evaluated.val = Number(3)
          /\ nodes = <<Braces(Append(TwoThenThree, PToken(Semicolon)))>> =>
                evaluated.ok /\ evaluated.val = Unit

C7_Witness ==
    /\ pstage = "executed"
    /\ nodes = LetX2 \o <<PToken(Semicolon), Num(3)>>
    /\ parsed.val[2] = ImplicitReturn(Value(Number(3)))
    /\ evaluated.ok /\ evaluated.val = Number(3)

\* C10: on a non-empty node sequence get_expr returns an Expression or a
\* SyntaxError; it never aborts on an out-of-range slice or index.
C10_NeverAborts == (pstage = "expr" /\ nodes # <<>>) => ~IsPanic(parsed)

(***************************************************************************)
(* Properties of the evaluator.  Between statements of the program the     *)
(* Context has the one layer main created.                                 *)
(***************************************************************************)
Top(ctx) == ctx.layers[1]

IsBlockStatement(st) == st.s = "Expr" /\ st.expr.e = "Block"

PlainStatement(st) == st.s \in {"VariableDefinition", "VariableAssignment"}

Defines(st, n) == st.s = "VariableDefinition" /\ st.name = n

Assigns(st, n) == st.s = "VariableAssignment" /\ st.ref.name = n

\* the first statement of the block that names n is a `let` of n
LetComesFirst(body, n) ==
    \E j \in 1..Len(body) :
        /\ Defines(body[j], n)
        /\ \A k \in 1..(j - 1) :
              PlainStatement(body[k]) /\ ~Defines(body[k], n) /\ ~Assigns(body[k], n)

LetX == ExprStmt(Block(<<Let("x", Const(2))>>))

\* C4: a `let` in a block of a name bound in the enclosing context leaves
\* the enclosing binding as it was: after a block whose first statement on
\* n is `let n = ..`, n is bound outside to the value it had before; after
\* `let x = 1; { let x = 2; }` x is 1, and reading a name yields its binding.
C4_InnerLetDoesNotLeak ==
    /\ IsBlockStatement(executed) =>
          \A n \in DOMAIN Top(entry) :
              LetComesFirst(executed.expr.stmts, n) =>
                  /\ n \in DOMAIN Top(context)
                  /\ Top(context)[n] = Top(entry)[n]
    /\ (/\ executed = LetX
        /\ "x" \in DOMAIN Top(entry)
        /\ Top(entry)["x"] = Number(1))
       => outcome.ok /\ Context_get_var(context, "x") = Ok(Number(1))
    /\ (/\ executed.s = "Return" /\ executed.expr.e = "Reference"
        /\ executed.expr.ref.name \in DOMAIN Top(entry))
       => outcome.ok /\ outcome.val = Top(entry)[executed.expr.ref.name]

C4_Witness ==
    /\ executed = LetX
    /\ "x" \in DOMAIN Top(entry)
    /\ Top(entry)["x"] = Number(1)
    /\ outcome.ok
    /\ Top(context)["x"] = Number(1)

\* the block only assigns to n, never defines it, and has no inner block
OnlyAssigned(body, n) ==
    /\ \A j \in 1..Len(body) : PlainStatement(body[j]) /\ ~Defines(body[j], n)
    /\ \E j \in 1..Len(body) : Assigns(body[j], n)

\* the value of the last assignment to n in the block
LastAssigned(body, n) ==
    LET last == CHOOSE j \in 1..Len(body) :
                    /\ Assigns(body[j], n)
                    /\ \A k \in (j + 1)..Len(body) : ~Assigns(body[k], n)
    IN body[last].expr.value

SetX == ExprStmt(Block(<<Set("x", Const(2))>>))

\* C5: after a block that assigns to a name of the enclosing context, the
\* name has the assigned value outside the block (after `let x = 1;
\* { x = 2; }` x is 2), and no name that was not defined before the block is
\* defined after it.
C5_InnerAssignmentLeaks ==
    /\ IsBlockStatement(executed) =>
          /\ DOMAIN Top(context) = DOMAIN Top(entry)
          /\ context.cur_layer = 0 /\ Len(context.layers) = 1
          /\ outcome.ok =>
                \A n \in DOMAIN Top(entry) :
                    OnlyAssigned(executed.expr.stmts, n) =>
                        Top(context)[n] = LastAssigned(executed.expr.stmts, n)
    /\ (/\ executed = SetX
        /\ "x" \in DOMAIN Top(entry)
        /\ Top(entry)["x"] = Number(1))
       => outcome.ok /\ Context_get_var(context, "x") = Ok(Number(2))

C5_Witness ==
    /\ executed = SetX
    /\ "x" \in DOMAIN Top(entry)
    /\ Top(entry)["x"] = Number(1)
    /\ outcome.ok
    /\ Top(context)["x"] = Number(2)

IsCall(st) == st.s = "Return" /\ st.expr.e = "FunctionCall"

\* the value of a literal or variable argument in the caller's context
ArgumentIn(ctx, arg) ==
    IF arg.e = "Value" THEN Ok(arg.value)
    ELSE IF arg.ref.name \in DOMAIN Top(ctx) THEN Ok(Top(ctx)[arg.ref.name])
    ELSE Err("Variable is not defined")

CallOnA == Return(FunctionCall(Read("f"), <<Read("a")>>))

\* C8: a call of |a| { a = a + 1; a } returns its argument plus one (6 for
\* 5) and leaves every variable of the caller as it was, also the variable
\* passed as the argument and one named like the parameter.
C8_CallIsolatesParameters ==
    (IsCall(executed) /\ Len(executed.expr.callargs) = 1
        /\ "f" \in DOMAIN Top(entry)) =>
        LET arg == ArgumentIn(entry, executed.expr.callargs[1])
        IN /\ context = entry
           /\ arg.ok =>
                 /\ outcome.ok
                 /\ outcome.val = Number(arg.val.num + 1)
           /\ executed.expr.callargs[1] = Const(5) => outcome.val = Number(6)

C8_Witness ==
    /\ executed = CallOnA
    /\ "f" \in DOMAIN Top(entry)
    /\ "a" \in DOMAIN Top(entry)
    /\ Top(entry)["a"] = Number(5)
    /\ outcome.ok /\ outcome.val = Number(6)
    /\ Top(context)["a"] = Number(5)

(***************************************************************************)
(* Properties of the flat executor.                                        *)
(***************************************************************************)
\* C6: a VariableDefinition of a name the map already holds fails with
\* "Variable is already defined" and leaves the map as it was; of a new name
\* it yields Unit and adds exactly the binding of the name to the value of
\* the initializer.
C6_RedefinitionFails ==
    issued.s = "VariableDefinition" =>
        LET val == eval_expr(held, issued.expr)
        IN val.ok =>
              IF issued.name \in DOMAIN held
              THEN /\ ~answer.ok
                   /\ answer.err = "Variable is already defined"
                   /\ globals = held
              ELSE /\ answer.ok /\ answer.val = Unit
                   /\ DOMAIN globals = DOMAIN held \cup {issued.name}
                   /\ \A n \in DOMAIN held : globals[n] = held[n]
                   /\ globals[issued.name] = val.val
                   /\ issued.expr.e = "Value" => globals[issued.name] = issued.expr.value

C6_Witness ==
    /\ issued = Let("x", Const(2))
    /\ "x" \in DOMAIN held
    /\ held["x"] = Number(1)
    /\ ~answer.ok
    /\ globals["x"] = Number(1)

\* the elements of the list an index expression reads from
ElementsOf(map, base) ==
    IF base.e = "List" THEN Ok([j \in 1..Len(base.items) |-> base.items[j].value])
    ELSE IF base.ref.name \in DOMAIN map /\ map[base.ref.name].v = "List"
         THEN Ok(map[base.ref.name].elems)
         ELSE Err("no list")

IsIndexRead(st) ==
    st.s = "VariableDefinition" /\ st.expr.e = "Reference" /\ st.expr.ref.r = "Index"

IsNestedWrite(st) ==
    st.s = "VariableAssignment" /\ st.ref.r = "Index" /\ st.ref.base.ref.r = "Index"

IsBracedGroup(s) == Len(s) = 1 /\ s[1].k = "Braces"

C11_NoEmptyStatementList ==
    /\ (pstage = "stmts" /\ parsed.ok) => Len(parsed.val) > 0
    /\ (pstage = "expr" /\ IsBracedGroup(nodes) /\ parsed.ok
           /\ parsed.val.e = "Block") => Len(parsed.val.stmts) > 0

\* ---------------------------------------------------------------------------
\* C12: in the layered evaluator an if/else whose condition evaluates to a
\* value that is not a Boolean fails with a runtime error: it neither takes
\* the else arm nor yields Unit.
IsConditional(st) == st.s = "Return" /\ st.expr.e = "IfElse"

C12_NonBooleanConditionFails ==
    IsConditional(executed) =>
        LET do_if == evaluate_expr(entry, executed.expr.cond)
        IN (do_if.ok /\ do_if.val.v # "Boolean") => ~outcome.ok

\* ---------------------------------------------------------------------------
\* the top-level operators of the lowest precedence value in s
LowestIndices(s) ==
    {j \in OperatorIndices(s) :
        \A k \in OperatorIndices(s) :
            Precedence(OperatorAt(s, j)) <= Precedence(OperatorAt(s, k))}

FirstOf(js) == CHOOSE j \in js : \A k \in js : j <= k

LastOf(js) == CHOOSE j \in js : \A k \in js : k <= j

\* values and operators only: get_expr reaches the operator split
OperatorSlice(s) ==
    /\ Len(s) > 1
    /\ \A j \in 1..Len(s) : IsTok(s[j], "Value") \/ IsTok(s[j], "Operator")

SeveralLowest(s) == OperatorSlice(s) /\ Cardinality(LowestIndices(s)) > 1

\* C13 (as stated): when several top-level operators share the lowest
\* precedence value, get_expr splits the slice at the first (leftmost) of them.
C13_SplitsAtFirstLowest ==
    (pstage = "expr" /\ SeveralLowest(nodes)) =>
        parsed = get_expr_operator(nodes, FirstOf(LowestIndices(nodes)))

\* C13 (amended): when several top-level operators share the lowest precedence
\* value, get_expr splits the slice at the last (rightmost) of them.
C13_SplitsAtLastLowest ==
    (pstage = "expr" /\ SeveralLowest(nodes)) =>
        parsed = get_expr_operator(nodes, LastOf(LowestIndices(nodes)))

C13_Witness ==
    /\ pstage = "expr"
    /\ nodes = TenMinusThreeMinusTwo
    /\ LowestIndices(nodes) = {1, 3}
    /\ parsed.ok
    /\ parsed.val.left = BinaryOperator(Value(Number(10)), Value(Number(3)), "Subtract")
    /\ parsed.val.right = Value(Number(2))

\* ---------------------------------------------------------------------------
\* statements whose value, when it is not Unit, comes from a return or break
ExitsOnly(b) ==
    \A j \in 1..Len(b.stmts) :
        b.stmts[j].s \in {"Return", "Break", "VariableAssignment", "VariableDefinition"}

\* a return or break with a value that is not Unit was executed in the body
Exited == passed # NoResult /\ passed.ok /\ passed.val # Unit

\* C14: a while loop stops as soon as a return or break with a non-Unit value
\* is executed in its body: the condition is not evaluated again and no
\* further iteration begins, even if the condition would still be true.
C14_LoopStopsAtExit ==
    (position # "idle" /\ ExitsOnly(loop.loopbody) /\ Exited) => position # "body"

\* ---------------------------------------------------------------------------
\* C15: a call of a user function with more arguments than it has parameters
\* ends in a runtime error value like every other runtime failure: the
\* evaluator does not abort while it binds the arguments.
C15_TooManyArgumentsIsRuntimeError ==
    (IsCall(executed) /\ "f" \in DOMAIN Top(entry)
        /\ Top(entry)["f"].v = "Function"
        /\ Len(executed.expr.callargs) > Len(Top(entry)["f"].params)
        /\ \A j \in 1..Len(executed.expr.callargs) :
               ArgumentIn(entry, executed.expr.callargs[j]).ok)
    => (~outcome.ok /\ ~IsPanic(outcome))

\* ---------------------------------------------------------------------------
IsPlainAssignment(st) == st.s = "VariableAssignment" /\ st.ref.r = "Variable"

SetY == Set("y", Const(9))

\* C16: a VariableAssignment to a plain name that is not defined fails with a
\* runtime error and creates no binding: the defined names and their values
\* are after the failed assignment what they were before.  When the name is
\* defined, the assignment changes the value of that name and of no other.
C16_AssignmentNeedsDefinedName ==
    IsPlainAssignment(issued) =>
        LET val == eval_expr(held, issued.expr)
        IN IF issued.ref.name \notin DOMAIN held
           THEN /\ ~answer.ok
                /\ val.ok => answer.err = "Variable is not defined"
                /\ globals = held
           ELSE /\ DOMAIN globals = DOMAIN held
                /\ \A n \in DOMAIN held \ {issued.ref.name} : globals[n] = held[n]
                /\ val.ok => /\ answer.ok
                             /\ globals[issued.ref.name] = val.val

C16_Witness ==
    /\ issued = SetY
    /\ "x" \in DOMAIN held
    /\ "y" \notin DOMAIN held
    /\ ~answer.ok
    /\ answer.err = "Variable is not defined"
    /\ globals = held

\* ---------------------------------------------------------------------------
\* the number of nodes of a slice that the expression x stands for: one per
\* literal, name, keyword, operator and group node
RECURSIVE Covered(_)
Covered(x) ==
    CASE x.e = "IfElse" ->
           1 + Covered(x.cond) + 1 + (IF x.else = <<>> THEN 0 ELSE 2)
      [] x.e = "BinaryOperator" -> Covered(x.left) + 1 + Covered(x.right)
      [] x.e = "UnaryOperator" -> 1 + Covered(x.operand)
      [] x.e = "FunctionCall" -> Covered(x.callee) + 1
      [] OTHER -> 1

ContainsIf(s) == Position(s, IsIf) # -1

\* C17: when get_expr succeeds on a slice that contains an `if` keyword, every
\* node of the slice is part of the returned expression: no node before the
\* `if` or after the else block, like the `1 +` of 1 + if c {a} else {b}, is
\* left out.
C17_IfKeepsEveryNode ==
    (pstage = "expr" /\ ContainsIf(nodes) /\ parsed.ok) =>
        Covered(parsed.val) = Len(nodes)

\* ---------------------------------------------------------------------------
DelimiterKinds ==
    {"OpeningParethesis", "ClosingParethesis", "OpeningBrace", "ClosingBrace",
     "OpeningBracket", "ClosingBracket", "VerticalBar"}

\* no Token node of ns, at any level, is a delimiter
RECURSIVE NoRawDelimiter(_)
NoRawDelimiter(ns) ==
    \A j \in 1..Len(ns) :
        CASE ns[j].k = "Token" -> ns[j].tok.t \notin DelimiterKinds
          [] ns[j].k = "Closure" -> TRUE
          [] OTHER -> NoRawDelimiter(ns[j].body)

\* C18: when reduce_brackets_and_parenths succeeds, no opening or closing
\* delimiter (parenthesis, brace, bracket, vertical bar) is left as a Token
\* node at any level of its output; a closing delimiter without an opening
\* partner makes the reducer fail.
C18_NoRawDelimiterLeft == rstatus = "ok" => NoRawDelimiter(reduced_t)

\* ---------------------------------------------------------------------------
\* C19: parsing terminates on every finite input, and it terminates in a
\* result or an error: once get_expr or get_statements has run on a slice,
\* what it produced is an expression, a statement list or a syntax error.
C19_ParsingEndsInResultOrError ==
    pstage \in {"expr", "stmts"} => (parsed.ok \/ parsed.err # Panic.err)

====
